---- MODULE Spec2Model ----
(***************************************************************************)
(* State-machine model of the calculator of src/calculator_cli.py (console *)
(* front end) and src/calculator_tkinter.py (keypad front end).            *)
(*                                                                         *)
(* A Python str is a sequence of one-character strings: "3+" is            *)
(* <<"3", "+">>.  The character U+232B (the erase-to-the-left key cap) is   *)
(* written "BKSP".                                                         *)
(***************************************************************************)
EXTENDS Integers, Sequences, FiniteSets, TLC

(***************************************************************************)
(* Text helpers: str.strip, str.lower, str.endswith, "".join              *)
(***************************************************************************)

\* the whitespace str.strip() removes and \s matches, as far as it is drawn here
WhitespaceChars == {" ", "\t"}

DigitChars == {"0", "1", "2", "3", "4", "5", "6", "7", "8", "9"}

UpperLetters == <<"A", "B", "C", "D", "E", "F", "G", "H", "I", "J", "K", "L", "M",
                  "N", "O", "P", "Q", "R", "S", "T", "U", "V", "W", "X", "Y", "Z">>

LowerLetters == <<"a", "b", "c", "d", "e", "f", "g", "h", "i", "j", "k", "l", "m",
                  "n", "o", "p", "q", "r", "s", "t", "u", "v", "w", "x", "y", "z">>

LowerChar(c) ==
  IF \E i \in 1..Len(UpperLetters) : UpperLetters[i] = c
  THEN LowerLetters[CHOOSE i \in 1..Len(UpperLetters) : UpperLetters[i] = c]
  ELSE c

\* str.lower()
Lower(s) == [i \in 1..Len(s) |-> LowerChar(s[i])]

RECURSIVE LStrip(_)
LStrip(s) ==
  IF s # <<>> /\ Head(s) \in WhitespaceChars THEN LStrip(Tail(s)) ELSE s

RECURSIVE RStrip(_)
RStrip(s) ==
  IF s # <<>> /\ s[Len(s)] \in WhitespaceChars
  THEN RStrip(SubSeq(s, 1, Len(s) - 1))
  ELSE s

\* str.strip()
Strip(s) == LStrip(RStrip(s))

\* s.endswith(c) for a one-character c
EndsWith(s, c) == s # <<>> /\ s[Len(s)] = c

\* s[:-1]
DropLast(s) == SubSeq(s, 1, Len(s) - 1)

\* "".join(chunks)
RECURSIVE Join(_)
Join(chunks) ==
  IF chunks = <<>> THEN <<>> ELSE Head(chunks) \o Join(Tail(chunks))

\* the absent value of an Optional[str] field
None == <<"None">>

(***************************************************************************)
(* Natural numbers of any size as digit sequences, most significant digit  *)
(* first, no leading zero (zero is <<0>>): the coefficient of a Decimal.   *)
(***************************************************************************)

RECURSIVE NatNorm(_)
NatNorm(d) ==
  IF d = <<>> THEN <<0>>
  ELSE IF Len(d) > 1 /\ Head(d) = 0 THEN NatNorm(Tail(d)) ELSE d

NatIsZero(d) == NatNorm(d) = <<0>>

Zeros(n) == [i \in 1..n |-> 0]

\* d padded on the left with zeros to n digits
PadLeft(d, n) == Zeros(n - Len(d)) \o d

Max(a, b) == IF a >= b THEN a ELSE b

Min(a, b) == IF a <= b THEN a ELSE b

\* -1, 0, 1 as a < b, a = b, a > b (same length, digit by digit)
RECURSIVE CmpSameLen(_, _)
CmpSameLen(a, b) ==
  IF a = <<>> THEN 0
  ELSE IF Head(a) < Head(b) THEN -1
  ELSE IF Head(a) > Head(b) THEN 1
  ELSE CmpSameLen(Tail(a), Tail(b))

NatCmp(a, b) ==
  LET n == Max(Len(a), Len(b)) IN CmpSameLen(PadLeft(a, n), PadLeft(b, n))

\* a + b + carry on equal-length digit sequences, result of Len(a) + 1 digits
RECURSIVE AddSameLen(_, _, _)
AddSameLen(a, b, carry) ==
  IF a = <<>> THEN <<carry>>
  ELSE LET n == Len(a)
           t == a[n] + b[n] + carry
       IN  Append(AddSameLen(SubSeq(a, 1, n - 1), SubSeq(b, 1, n - 1), t \div 10),
                  t % 10)

NatAdd(a, b) ==
  LET n == Max(Len(a), Len(b))
  IN  NatNorm(AddSameLen(PadLeft(a, n), PadLeft(b, n), 0))

\* a - b - borrow on equal-length digit sequences, a >= b
RECURSIVE SubSameLen(_, _, _)
SubSameLen(a, b, borrow) ==
  IF a = <<>> THEN <<>>
  ELSE LET n == Len(a)
           t == a[n] - b[n] - borrow
       IN  Append(SubSameLen(SubSeq(a, 1, n - 1), SubSeq(b, 1, n - 1),
                             IF t < 0 THEN 1 ELSE 0),
                  IF t < 0 THEN t + 10 ELSE t)

\* a - b for a >= b
NatSub(a, b) ==
  LET n == Max(Len(a), Len(b))
  IN  NatNorm(SubSameLen(PadLeft(a, n), PadLeft(b, n), 0))

\* a * m + carry for one digit m
RECURSIVE MulDigit(_, _, _)
MulDigit(a, m, carry) ==
  IF a = <<>> THEN <<carry>>
  ELSE LET n == Len(a)
           t == a[n] * m + carry
       IN  Append(MulDigit(SubSeq(a, 1, n - 1), m, t \div 10), t % 10)

\* a * 10^n
NatShift(a, n) == IF NatIsZero(a) THEN <<0>> ELSE NatNorm(a) \o Zeros(n)

RECURSIVE NatMul(_, _)
NatMul(a, b) ==
  IF b = <<>> THEN <<0>>
  ELSE NatAdd(NatShift(NatMul(a, SubSeq(b, 1, Len(b) - 1)), 1),
              NatNorm(MulDigit(a, b[Len(b)], 0)))

\* the largest q in 0..9 with q * b <= r, found by counting up
RECURSIVE QuotDigit(_, _, _)
QuotDigit(r, b, q) ==
  IF q < 9 /\ NatCmp(NatNorm(MulDigit(b, q + 1, 0)), r) <= 0
  THEN QuotDigit(r, b, q + 1)
  ELSE q

\* long division of a by b # 0, one digit of a at a time: [q, r] with the
\* quotient so far q and the running remainder r
RECURSIVE LongDiv(_, _, _, _)
LongDiv(a, b, q, r) ==
  IF a = <<>> THEN [q |-> NatNorm(q), r |-> NatNorm(r)]
  ELSE LET r1 == NatNorm(Append(r, Head(a)))
           qd == QuotDigit(r1, b, 0)
       IN  LongDiv(Tail(a), b, Append(q, qd),
                   NatSub(r1, NatNorm(MulDigit(b, qd, 0))))

\* divmod(a, b)
NatDivMod(a, b) == LongDiv(a, b, <<>>, <<>>)

\* int -> digit sequence, for small non-negative n
RECURSIVE NatOfInt(_)
NatOfInt(n) == IF n < 10 THEN <<n>> ELSE Append(NatOfInt(n \div 10), n % 10)

(***************************************************************************)
(* decimal.Decimal under the default context (prec = 28, ROUND_HALF_EVEN): *)
(* [sign, int, exp] is (-1)^sign * int * 10^exp, as in Decimal's _sign,     *)
(* _int, _exp.  Exponents stay far inside Emin..Emax for inputs of the     *)
(* lengths drawn here, so Overflow/Underflow/Clamped never arise.          *)
(***************************************************************************)

\* getcontext().prec
DecimalPrec == 28

Dec(sign, int, exp) == [sign |-> sign, int |-> NatNorm(int), exp |-> exp]

DecIsZero(d) == NatIsZero(d.int)

AllZeros(s) == \A i \in 1..Len(s) : s[i] = 0

\* Decimal._round_half_even on the digits cut off: 1 to round the kept part up
RoundsUp(kept, cut) ==
  IF cut = <<>> THEN FALSE
  ELSE IF cut[1] = 5 /\ AllZeros(Tail(cut))
       THEN kept # <<>> /\ kept[Len(kept)] % 2 = 1
       ELSE cut[1] >= 5

\* Decimal._fix: round the coefficient to the context precision
DecFix(d) ==
  IF DecIsZero(d) \/ Len(d.int) <= DecimalPrec THEN d
  ELSE LET kept == SubSeq(d.int, 1, DecimalPrec)
           cut  == SubSeq(d.int, DecimalPrec + 1, Len(d.int))
           up   == IF RoundsUp(kept, cut) THEN NatAdd(kept, <<1>>) ELSE kept
           e    == d.exp + Len(cut)
       IN  IF Len(up) > DecimalPrec
           THEN [sign |-> d.sign, int |-> DropLast(up), exp |-> e + 1]
           ELSE [sign |-> d.sign, int |-> up, exp |-> e]

\* Decimal.__neg__: the negation of a zero is the positive zero
DecNeg(d) ==
  IF DecIsZero(d) THEN DecFix([d EXCEPT !.sign = 0])
  ELSE DecFix([d EXCEPT !.sign = 1 - d.sign])

\* Decimal.copy_negate
DecCopyNegate(d) == [d EXCEPT !.sign = 1 - d.sign]

\* decimal._normalize: both coefficients at the smaller exponent; an operand
\* too small to matter at the context precision becomes 1 at a low exponent
DecAlign(a, b) ==
  LET tmp   == IF a.exp < b.exp THEN b ELSE a
      other == IF a.exp < b.exp THEN a ELSE b
      e     == tmp.exp + Min(-1, Len(tmp.int) - DecimalPrec - 2)
      oth   == IF Len(other.int) + other.exp - 1 < e
               THEN [other EXCEPT !.int = <<1>>, !.exp = e]
               ELSE other
      tm    == [tmp EXCEPT !.int = NatShift(tmp.int, tmp.exp - oth.exp),
                           !.exp = oth.exp]
  IN  IF a.exp < b.exp THEN [op1 |-> oth, op2 |-> tm] ELSE [op1 |-> tm, op2 |-> oth]

\* Decimal.__add__
DecAdd(a, b) ==
  LET e == Min(a.exp, b.exp)
  IN  IF DecIsZero(a) /\ DecIsZero(b)
      THEN DecFix(Dec(Min(a.sign, b.sign), <<0>>, e))
      ELSE IF DecIsZero(a)
      THEN LET e1 == Max(e, b.exp - DecimalPrec - 1)
           IN  DecFix(Dec(b.sign, NatShift(b.int, b.exp - e1), e1))
      ELSE IF DecIsZero(b)
      THEN LET e1 == Max(e, a.exp - DecimalPrec - 1)
           IN  DecFix(Dec(a.sign, NatShift(a.int, a.exp - e1), e1))
      ELSE LET al  == DecAlign(a, b)
               op1 == al.op1
               op2 == al.op2
               c   == NatCmp(op1.int, op2.int)
           IN  IF op1.sign # op2.sign
               THEN IF c = 0 THEN DecFix(Dec(0, <<0>>, e))
                    ELSE IF c < 0
                    THEN DecFix(Dec(op2.sign, NatSub(op2.int, op1.int), op1.exp))
                    ELSE DecFix(Dec(op1.sign, NatSub(op1.int, op2.int), op1.exp))
               ELSE DecFix(Dec(op1.sign, NatAdd(op1.int, op2.int), op1.exp))

\* Decimal.__sub__
DecSub(a, b) == DecAdd(a, DecCopyNegate(b))

\* Decimal.__mul__
DecMul(a, b) ==
  LET sign == IF a.sign = b.sign THEN 0 ELSE 1
  IN  IF DecIsZero(a) \/ DecIsZero(b)
      THEN DecFix(Dec(sign, <<0>>, a.exp + b.exp))
      ELSE DecFix(Dec(sign, NatMul(a.int, b.int), a.exp + b.exp))

\* an exact quotient brought as close to the ideal exponent as its trailing
\* zeros allow
RECURSIVE ToIdealExp(_, _, _)
ToIdealExp(coeff, e, ideal) ==
  IF e < ideal /\ coeff[Len(coeff)] = 0 /\ Len(coeff) > 1
  THEN ToIdealExp(DropLast(coeff), e + 1, ideal)
  ELSE [int |-> coeff, exp |-> e]

\* Decimal.__truediv__ for a divisor that is not zero
DecDiv(a, b) ==
  LET sign == IF a.sign = b.sign THEN 0 ELSE 1
  IN  IF DecIsZero(a) THEN DecFix(Dec(sign, <<0>>, a.exp - b.exp))
      ELSE LET shift == Len(b.int) - Len(a.int) + DecimalPrec + 1
               e     == a.exp - b.exp - shift
               dm    == IF shift >= 0
                        THEN NatDivMod(NatShift(a.int, shift), b.int)
                        ELSE NatDivMod(a.int, NatShift(b.int, -shift))
               adj   == IF ~NatIsZero(dm.r)
                        THEN [int |-> IF dm.q[Len(dm.q)] % 5 = 0
                                      THEN NatAdd(dm.q, <<1>>) ELSE dm.q,
                              exp |-> e]
                        ELSE ToIdealExp(dm.q, e, a.exp - b.exp)
           IN  DecFix(Dec(sign, adj.int, adj.exp))

\* trailing zeros of the coefficient moved into the exponent
RECURSIVE StripZeros(_, _)
StripZeros(int, e) ==
  IF Len(int) > 1 /\ int[Len(int)] = 0
  THEN StripZeros(DropLast(int), e + 1)
  ELSE [int |-> int, exp |-> e]

\* Decimal.normalize: a zero keeps its sign and gets exponent 0
DecNormalize(d) ==
  LET f == DecFix(d)
  IN  IF DecIsZero(f) THEN Dec(f.sign, <<0>>, 0)
      ELSE LET z == StripZeros(f.int, f.exp) IN Dec(f.sign, z.int, z.exp)

DigitChar(n) == <<"0", "1", "2", "3", "4", "5", "6", "7", "8", "9">>[n + 1]

DigitsText(int) == [i \in 1..Len(int) |-> DigitChar(int[i])]

\* format(d, "f"): positional notation, never an exponent
DecFormatF(d) ==
  LET n        == Len(d.int)
      dotplace == d.exp + n
      intpart  == IF dotplace < 0 THEN <<0>>
                  ELSE IF dotplace > n THEN d.int \o Zeros(dotplace - n)
                  ELSE IF dotplace = 0 THEN <<0>>
                  ELSE SubSeq(d.int, 1, dotplace)
      fracpart == IF dotplace < 0 THEN Zeros(-dotplace) \o d.int
                  ELSE IF dotplace > n THEN <<>>
                  ELSE SubSeq(d.int, dotplace + 1, n)
  IN  (IF d.sign = 1 THEN <<"-">> ELSE <<>>)
      \o DigitsText(intpart)
      \o (IF fracpart # <<>> THEN <<".">> \o DigitsText(fracpart) ELSE <<>>)

\* str.rstrip(c) for one character c
RECURSIVE RStripChar(_, _)
RStripChar(s, c) ==
  IF s # <<>> /\ s[Len(s)] = c THEN RStripChar(DropLast(s), c) ELSE s

Contains(s, c) == \E i \in 1..Len(s) : s[i] = c

\* CalculatorEngine._format_decimal
FormatDecimal(value) ==
  LET text  == DecFormatF(DecNormalize(value))
      text2 == IF Contains(text, ".")
               THEN RStripChar(RStripChar(text, "0"), ".")
               ELSE text
  IN  IF text2 = <<>> THEN <<"0">> ELSE text2

(***************************************************************************)
(* ast.parse(cleaned, mode="eval") on text that passed ALLOWED_EXPR_RE:     *)
(* Python's tokens and expression grammar over digits + - * / ( ) . and    *)
(* whitespace.                                                             *)
(***************************************************************************)

\* the characters ALLOWED_EXPR_RE admits
AllowedChars == DigitChars \cup {"+", "-", "*", "/", "(", ")", "."} \cup WhitespaceChars

\* ALLOWED_EXPR_RE.match(s): one or more characters, all of the class
AllowedExprMatch(s) == s # <<>> /\ \A i \in 1..Len(s) : s[i] \in AllowedChars

\* sys.getrecursionlimit() of the interpreter: the number of frames one call
\* of _eval_node inside another may hold before RecursionError is raised
RecursionLimit == 1000

SignChars == {"+", "-"}

\* one sign after another from s[i] on, more of them than RecursionLimit:
\* all but the first are prefix operators, each one an ast.UnaryOp inside
\* the one before it
DeepRunAt(s, i) ==
  /\ i + RecursionLimit <= Len(s)
  /\ \A j \in i..(i + RecursionLimit) : s[j] \in SignChars

HasDeepRun(s) == \E i \in 1..(Len(s) - RecursionLimit) : DeepRunAt(s, i)

\* stands in a text for the prefix operators of such a run
DeepMark == "deep"

\* the index after the run of signs that starts at i
SignsEnd(s, i) ==
  CHOOSE j \in i..(Len(s) + 1) :
    /\ j > Len(s) \/ s[j] \notin SignChars
    /\ \A n \in i..(j - 1) : s[n] \in SignChars

\* s with the first such run written as its first sign and the mark
MarkDeepRunAt(s, i) ==
  SubSeq(s, 1, i) \o <<DeepMark>> \o SubSeq(s, SignsEnd(s, i), Len(s))

MarkDeepRun(s) ==
  MarkDeepRunAt(s, CHOOSE i \in 1..Len(s) :
                     DeepRunAt(s, i) /\ \A n \in 1..(i - 1) : ~DeepRunAt(s, n))

\* the index after the run of digits that starts at i
RECURSIVE DigitsEnd(_, _)
DigitsEnd(s, i) ==
  IF i <= Len(s) /\ s[i] \in DigitChars THEN DigitsEnd(s, i + 1) ELSE i

Tok(t, v, ip, fp) == [t |-> t, v |-> v, ip |-> ip, fp |-> fp]

OpTok(v) == Tok("op", v, <<>>, <<>>)

At(s, i) == IF i >= 1 /\ i <= Len(s) THEN s[i] ELSE "EOF"

\* the token that starts at s[i] (not whitespace) and the index after it;
\* "err" is the tokenizer's SyntaxError
NextToken(s, i) ==
  LET c == s[i]
  IN  IF c \in DigitChars
      THEN LET j  == DigitsEnd(s, i)
               ip == SubSeq(s, i, j - 1)
           IN  IF At(s, j) = "."
               THEN LET k == DigitsEnd(s, j + 1)
                    IN  [tok |-> Tok("float", "", ip, SubSeq(s, j + 1, k - 1)),
                         next |-> k]
               ELSE IF ip[1] = "0" /\ \E n \in 1..Len(ip) : ip[n] # "0"
               THEN [tok |-> Tok("err", "", <<>>, <<>>), next |-> j]
               ELSE [tok |-> Tok("int", "", ip, <<>>), next |-> j]
      ELSE IF c = "."
      THEN IF At(s, i + 1) \in DigitChars
           THEN LET k == DigitsEnd(s, i + 1)
                IN  [tok |-> Tok("float", "", <<>>, SubSeq(s, i + 1, k - 1)),
                     next |-> k]
           ELSE IF At(s, i + 1) = "." /\ At(s, i + 2) = "."
           THEN [tok |-> OpTok("..."), next |-> i + 3]
           ELSE [tok |-> OpTok("."), next |-> i + 1]
      ELSE IF c = "*" /\ At(s, i + 1) = "*" THEN [tok |-> OpTok("**"), next |-> i + 2]
      ELSE IF c = "/" /\ At(s, i + 1) = "/" THEN [tok |-> OpTok("//"), next |-> i + 2]
      ELSE IF c \in {"+", "-", "*", "/", "(", ")", DeepMark}
      THEN [tok |-> OpTok(c), next |-> i + 1]
      ELSE [tok |-> Tok("err", "", <<>>, <<>>), next |-> i + 1]

RECURSIVE TokenizeFrom(_, _)
TokenizeFrom(s, i) ==
  IF i > Len(s) THEN <<>>
  ELSE IF s[i] \in WhitespaceChars THEN TokenizeFrom(s, i + 1)
  ELSE LET nt == NextToken(s, i) IN <<nt.tok>> \o TokenizeFrom(s, nt.next)

Tokenize(s) == TokenizeFrom(s, 1)

DigitValue(c) == CHOOSE n \in 0..9 : DigitChar(n) = c

DigitsOf(text) == [i \in 1..Len(text) |-> DigitValue(text[i])]

\* Decimal(str(node.value)) for an int literal: the integer itself
DecOfInt(ip) == Dec(0, DigitsOf(ip), 0)

(***************************************************************************)
(* A float literal becomes a binary double when the text is parsed and     *)
(* goes back to text with str() before Decimal sees it.  A double is held  *)
(* here as [mant, bexp], the value mant * 2^(-bexp) with mant in           *)
(* [2^52, 2^53), so two doubles are equal exactly when the records are.    *)
(* Literals of the lengths drawn here stay far inside the normal range, so *)
(* subnormals, infinities and overflow never arise.                        *)
(***************************************************************************)

\* 2^52 and 2^53: a double's significand lies in [2^52, 2^53)
Two52 == <<4, 5, 0, 3, 5, 9, 9, 6, 2, 7, 3, 7, 0, 4, 9, 6>>

Two53 == <<9, 0, 0, 7, 1, 9, 9, 2, 5, 4, 7, 4, 0, 9, 9, 2>>

\* the bits of a significand after the leading one
MantBits == 52

\* doublings that bring any value between 2^-64 and 2^64 into [1, 2)
BinRange == 64

\* significant digits a repr never needs more than
ReprMaxDigits == 17

\* literals of at most this many significant digits survive the round trip
FloatExactDigits == 15

\* The sums of this section run on numbers of fifty digits and more, so they
\* are written without recursion over the digits: the carry into a place is
\* read off the places to its right.
FirstOf(S) == CHOOSE i \in S : \A j \in S : i <= j

\* w, with v worked out first.  An operand is worked out where it is first
\* looked at, which can be deep inside the operators it is handed to; a chain
\* of steps stays shallow when each result is looked at before it is passed
\* on.
Given(v, w) == IF v = v THEN w ELSE w

WideNormFrom(d, nonzero) ==
  IF nonzero = {} THEN <<0>> ELSE SubSeq(d, FirstOf(nonzero), Len(d))

WideNorm(d) == WideNormFrom(d, {i \in 1..Len(d) : d[i] # 0})

CarryInto(a, b, i) ==
  \E j \in (i + 1)..Len(a) :
    /\ a[j] + b[j] >= 10
    /\ \A k \in (i + 1)..(j - 1) : a[k] + b[k] = 9

WideAddPadded(a, b) ==
  WideNorm([i \in 1..Len(a) |->
              (a[i] + b[i] + IF CarryInto(a, b, i) THEN 1 ELSE 0) % 10])

WideAddTo(a, b, n) == WideAddPadded(PadLeft(a, n), PadLeft(b, n))

\* a + b
WideAdd(a, b) == WideAddTo(a, b, Max(Len(a), Len(b)) + 1)

BorrowInto(a, b, i) ==
  \E j \in (i + 1)..Len(a) :
    /\ a[j] < b[j]
    /\ \A k \in (i + 1)..(j - 1) : a[k] = b[k]

WideSubPadded(a, b) ==
  WideNorm([i \in 1..Len(a) |->
              (10 + a[i] - b[i] - IF BorrowInto(a, b, i) THEN 1 ELSE 0) % 10])

\* a - b for a >= b
WideSub(a, b) == WideSubPadded(a, PadLeft(b, Len(a)))

WideCmpAt(a, b, differ) ==
  IF differ = {} THEN 0
  ELSE IF a[FirstOf(differ)] < b[FirstOf(differ)] THEN -1 ELSE 1

WideCmpPadded(a, b) == WideCmpAt(a, b, {i \in 1..Len(a) : a[i] # b[i]})

WideCmpTo(a, b, n) == WideCmpPadded(PadLeft(a, n), PadLeft(b, n))

\* -1, 0 or 1 as a < b, a = b or a > b
WideCmp(a, b) == WideCmpTo(a, b, Max(Len(a), Len(b)))

Twice(a) == WideAdd(a, a)

TimesFive(a) == WideAdd(Twice(Twice(a)), a)

\* a * 2^n by repeated doubling, the first half of the doublings and then
\* the rest
RECURSIVE NatDouble(_, _)
NatDouble(a, n) ==
  IF a = <<0>> \/ n = 0 THEN a
  ELSE IF n = 1 THEN Twice(a)
  ELSE NatDouble(NatDouble(a, n \div 2), n - n \div 2)

\* a * 5^n
RECURSIVE NatTimesFive(_, _)
NatTimesFive(a, n) ==
  IF a = <<0>> \/ n = 0 THEN a
  ELSE IF n = 1 THEN TimesFive(a)
  ELSE NatTimesFive(NatTimesFive(a, n \div 2), n - n \div 2)

\* 1 <= num / den < 2
Normed(st) ==
  WideCmp(st.num, st.den) >= 0 /\ WideCmp(st.num, Twice(st.den)) < 0

\* one doubling of num or den towards 1 <= num / den < 2; s counts them
NormStep(st) ==
  IF WideCmp(st.num, st.den) < 0
  THEN [num |-> Twice(st.num), den |-> st.den, s |-> st.s + 1]
  ELSE [num |-> st.num, den |-> Twice(st.den), s |-> st.s - 1]

\* up to k doublings, the first half of them and then the rest
RECURSIVE NormSteps(_, _)
NormSteps(st, k) ==
  Given(st, IF Normed(st) THEN st
            ELSE IF k = 1 THEN NormStep(st)
            ELSE NormSteps(NormSteps(st, k \div 2), k - k \div 2))

\* num / den brought into [1, 2) by a power of two: the result's num / den
\* is the given one times 2^s
BinNorm(num, den) == NormSteps([num |-> num, den |-> den, s |-> 0], BinRange)

\* binary long division, one more bit of the quotient: r2 is twice the
\* running remainder and q2 twice the quotient so far
BitNext(r2, den, q2) ==
  IF WideCmp(r2, den) >= 0
  THEN [q |-> WideAdd(q2, <<1>>), r |-> WideSub(r2, den)]
  ELSE [q |-> q2, r |-> r2]

BitStep(st, den) == BitNext(Twice(st.r), den, Twice(st.q))

\* up to k more bits, the first half of them and then the rest, until the
\* significand has its 53 bits
RECURSIVE BitSteps(_, _, _)
BitSteps(st, den, k) ==
  Given(st, IF WideCmp(st.q, Two52) >= 0 THEN st
            ELSE IF k = 1 THEN BitStep(st, den)
            ELSE BitSteps(BitSteps(st, den, k \div 2), den, k - k \div 2))

\* the 53-bit quotient of num / den in [1, 2) and what is left over
BinBits(num, den) ==
  BitSteps([q |-> <<1>>, r |-> WideSub(num, den)], den, MantBits)

\* the quotient rounded to nearest, ties to even: c compares twice the
\* remainder with the divisor
HalfEvenQuot(q, c) ==
  IF c > 0 \/ (c = 0 /\ q[Len(q)] % 2 = 1) THEN WideAdd(q, <<1>>) ELSE q

\* a significand rounded up to 2^53 is 2^52 one binade higher
BinDouble(mant, bexp) ==
  IF mant = Two53 THEN [mant |-> Two52, bexp |-> bexp - 1]
  ELSE [mant |-> mant, bexp |-> bexp]

BinRound(dm, den, s) ==
  Given(dm, BinDouble(HalfEvenQuot(dm.q, WideCmp(Twice(dm.r), den)),
                      s + MantBits))

BinNearest(normed) ==
  Given(normed,
        BinRound(BinBits(normed.num, normed.den), normed.den, normed.s))

\* float(text): the double nearest to int * 10^e, [mant, bexp] for the value
\* mant * 2^(-bexp)
ToDouble(int, e) ==
  IF int = <<0>> THEN [mant |-> <<0>>, bexp |-> 0]
  ELSE IF e >= 0 THEN BinNearest(BinNorm(NatShift(int, e), <<1>>))
  ELSE BinNearest(BinNorm(int, NatShift(<<1>>, -e)))

\* the exact value of a double in decimal: mant * 2^(-bexp) is
\* mant * 5^bexp * 10^(-bexp)
BinExpand(double) ==
  IF double.bexp <= 0
  THEN [int |-> NatDouble(double.mant, -double.bexp), exp |-> 0]
  ELSE [int |-> NatTimesFive(double.mant, double.bexp), exp |-> -double.bexp]

\* the n-digit decimals below and above kept.cut * 10^e, the nearer first
ReprNeighbours(kept, cut, e) ==
  IF RoundsUp(kept, cut)
  THEN <<[int |-> WideAdd(kept, <<1>>), exp |-> e], [int |-> kept, exp |-> e]>>
  ELSE <<[int |-> kept, exp |-> e], [int |-> WideAdd(kept, <<1>>), exp |-> e]>>

ReprCandidates(int, e, n) ==
  IF Len(int) <= n THEN <<[int |-> int, exp |-> e]>>
  ELSE ReprNeighbours(SubSeq(int, 1, n), SubSeq(int, n + 1, Len(int)),
                      e + Len(int) - n)

ReadsBackAs(cand, double) == ToDouble(cand.int, cand.exp) = double

\* the first candidate that reads back as the double, <<>> when none does
ReprPick(cands, double) ==
  IF ReadsBackAs(cands[1], double) THEN <<cands[1]>>
  ELSE IF Len(cands) > 1 /\ ReadsBackAs(cands[2], double) THEN <<cands[2]>>
  ELSE <<>>

\* float_repr_style "short": the fewest digits that read back as the double
RECURSIVE ShortestDigits(_, _, _)
ShortestFrom(picked, cands, double, expansion, n) ==
  IF picked # <<>> THEN StripZeros(picked[1].int, picked[1].exp)
  ELSE IF n >= ReprMaxDigits THEN StripZeros(cands[1].int, cands[1].exp)
  ELSE ShortestDigits(double, expansion, n + 1)

ShortestAmong(cands, double, expansion, n) ==
  Given(cands,
        ShortestFrom(ReprPick(cands, double), cands, double, expansion, n))

ShortestDigits(double, expansion, n) ==
  Given(expansion,
        ShortestAmong(ReprCandidates(expansion.int, expansion.exp, n),
                      double, expansion, n))

FloatRepr(double) == Given(double, ShortestDigits(double, BinExpand(double), 1))

\* Decimal(repr): positional text for 1e-4 <= x < 1e16 (with ".0" when there
\* is no fraction), exponent text otherwise
DecOfRepr(short) ==
  IF short.exp >= 0 /\ Len(short.int) + short.exp <= 16
  THEN Dec(0, short.int \o Zeros(short.exp + 1), -1)
  ELSE Dec(0, short.int, short.exp)

SignificantDigits(int) == Len(StripZeros(int, 0).int)

\* the literal with the digits int and -e fractional digits
DecOfFloatDigits(int, e) ==
  IF int = <<0>> THEN Dec(0, <<0>>, -1)
  ELSE IF SignificantDigits(int) <= FloatExactDigits
       THEN DecOfRepr(StripZeros(int, e))
       ELSE DecOfRepr(FloatRepr(ToDouble(int, e)))

\* Decimal(str(node.value)) for a float literal: the literal goes through a
\* binary float and back through repr, which gives the shortest text that
\* reads back as that float; for literals of at most 15 significant digits
\* that is the literal's value with the trailing zeros of the fraction
\* dropped and at least one fractional digit kept ("1." -> "1.0",
\* "0.50" -> "0.5", ".00001" -> "1e-05"); longer literals are rounded to the
\* nearest double first ("1.0000000000000001" -> "1.0")
DecOfFloat(ip, fp) == DecOfFloatDigits(NatNorm(DigitsOf(ip \o fp)), -Len(fp))

Node(k, op, v, l, r) == [k |-> k, op |-> op, v |-> v, l |-> l, r |-> r]

NoNode == [k |-> "none"]

\* ast.Constant holding an int or a float
NumNode(v) == Node("Constant", "", v, NoNode, NoNode)

\* ast.UnaryOp
UnaryNode(op, a) == Node("UnaryOp", op, <<>>, a, NoNode)

\* ast.BinOp
BinNode(op, l, r) == Node("BinOp", op, <<>>, l, r)

\* more ast.UnaryOp nodes than RecursionLimit, one inside the other, around a
DeepUnaryNode(a) == Node("DeepUnaryOp", "", <<>>, a, NoNode)

\* every other node: ast.Call, ast.Tuple, ast.Constant(Ellipsis)
OtherNode(k) == Node(k, "", <<>>, NoNode, NoNode)

\* a parse so far: ok = FALSE is SyntaxError, else the node and the index of
\* the next token
PR(ok, node, pos) == [ok |-> ok, node |-> node, pos |-> pos]

PFail == PR(FALSE, NoNode, 0)

IsOp(toks, i, v) == i >= 1 /\ i <= Len(toks) /\ toks[i].t = "op" /\ toks[i].v = v

\* the operators of a binary level: 1 is sum ('+' '-'), 2 is term ('*' '/' '//')
LevelOps(level) == IF level = 1 THEN {"+", "-"} ELSE {"*", "/", "//"}

IsLevelOp(toks, i, level) ==
  i >= 1 /\ i <= Len(toks) /\ toks[i].t = "op" /\ toks[i].v \in LevelOps(level)

\* the ast operator class of a token
AstOp(v) ==
  IF v = "+" THEN "Add" ELSE IF v = "-" THEN "Sub" ELSE IF v = "*" THEN "Mult"
  ELSE IF v = "/" THEN "Div" ELSE IF v = "//" THEN "FloorDiv" ELSE "Pow"

MkBin(op, left, right) ==
  IF left.ok /\ right.ok THEN PR(TRUE, BinNode(op, left.node, right.node), right.pos)
  ELSE PFail

MkUnary(v, operand) ==
  IF operand.ok
  THEN PR(TRUE, UnaryNode(IF v = "+" THEN "UAdd" ELSE "USub", operand.node), operand.pos)
  ELSE PFail

MkDeepUnary(operand) ==
  IF operand.ok THEN PR(TRUE, DeepUnaryNode(operand.node), operand.pos) ELSE PFail

\* ')' after the expression e: the group, or the call, is `node`
Close(toks, e, isCall) ==
  IF e.ok /\ IsOp(toks, e.pos, ")")
  THEN PR(TRUE, IF isCall THEN OtherNode("Call") ELSE e.node, e.pos + 1)
  ELSE PFail

\* where the one argument of a call starts: after '(' and a '*' or '**'
ArgStart(toks, i) ==
  IF IsOp(toks, i + 1, "*") \/ IsOp(toks, i + 1, "**") THEN i + 2 ELSE i + 1

RECURSIVE ParseLevel(_, _, _)
RECURSIVE BinRest(_, _, _)
RECURSIVE ParseAtom(_, _)
RECURSIVE Trailers(_, _)
RECURSIVE Power(_, _)

\* atom: NUMBER | '...' | '(' ')' | '(' expression ')'
ParseAtom(toks, i) ==
  IF i > Len(toks) THEN PFail
  ELSE IF toks[i].t = "int" THEN PR(TRUE, NumNode(DecOfInt(toks[i].ip)), i + 1)
  ELSE IF toks[i].t = "float"
  THEN PR(TRUE, NumNode(DecOfFloat(toks[i].ip, toks[i].fp)), i + 1)
  ELSE IF IsOp(toks, i, "...") THEN PR(TRUE, OtherNode("Ellipsis"), i + 1)
  ELSE IF IsOp(toks, i, "(")
  THEN IF IsOp(toks, i + 1, ")") THEN PR(TRUE, OtherNode("Tuple"), i + 2)
       ELSE Close(toks, ParseLevel(toks, i + 1, 1), FALSE)
  ELSE PFail

\* primary: atom ('(' [argument] ')')*, the one argument an expression,
\* '*' expression or '**' expression (no comma can be written)
Trailers(toks, a) ==
  IF a.ok /\ IsOp(toks, a.pos, "(")
  THEN IF IsOp(toks, a.pos + 1, ")")
       THEN Trailers(toks, PR(TRUE, OtherNode("Call"), a.pos + 2))
       ELSE Trailers(toks, Close(toks, ParseLevel(toks, ArgStart(toks, a.pos), 1), TRUE))
  ELSE a

\* power: primary ['**' factor]
Power(toks, p) ==
  IF p.ok /\ IsOp(toks, p.pos, "**")
  THEN MkBin("Pow", p, ParseLevel(toks, p.pos + 1, 3))
  ELSE p

\* the rest of a left-associative level after its first operand
BinRest(toks, level, left) ==
  IF left.ok /\ IsLevelOp(toks, left.pos, level)
  THEN BinRest(toks, level,
               MkBin(AstOp(toks[left.pos].v), left,
                     ParseLevel(toks, left.pos + 1, level + 1)))
  ELSE left

\* level 1, sum: term (('+' | '-') term)*
\* level 2, term: factor (('*' | '/' | '//') factor)*
\* level 3, factor: ('+' | '-') factor | power
ParseLevel(toks, i, level) ==
  IF level < 3 THEN BinRest(toks, level, ParseLevel(toks, i, level + 1))
  ELSE IF IsOp(toks, i, "+") \/ IsOp(toks, i, "-")
  THEN MkUnary(toks[i].v, ParseLevel(toks, i + 1, 3))
  ELSE IF IsOp(toks, i, DeepMark) THEN MkDeepUnary(ParseLevel(toks, i + 1, 3))
  ELSE Power(toks, Trailers(toks, ParseAtom(toks, i)))

\* the whole token list is one expression
WholeInput(toks, e) == IF e.ok /\ e.pos = Len(toks) + 1 THEN e ELSE PFail

ParseTokens(toks) ==
  IF \E i \in 1..Len(toks) : toks[i].t = "err" THEN PFail
  ELSE WholeInput(toks, ParseLevel(toks, 1, 1))

\* ast.parse(cleaned, mode="eval"): ok = FALSE is SyntaxError, else the body
AstParse(cleaned) ==
  IF HasDeepRun(cleaned) THEN ParseTokens(Tokenize(MarkDeepRun(cleaned)))
  ELSE ParseTokens(Tokenize(cleaned))

(***************************************************************************)
(* CalculatorEngine (the same code in both files)                          *)
(***************************************************************************)

\* the exceptions evaluate raises, by class and message
ErrEmpty == [exc |-> "ValueError", msg |-> "Expression is empty."]

ErrInvalidChar == [exc |-> "ValueError", msg |-> "Expression contains invalid characters."]

ErrMalformed == [exc |-> "ValueError", msg |-> "Malformed expression."]

ErrUnsupportedElement == [exc |-> "ValueError", msg |-> "Unsupported expression element detected."]

ErrUnsupportedOperator == [exc |-> "ValueError", msg |-> "Unsupported operator detected."]

ErrDivisionByZero == [exc |-> "DivisionByZero", msg |-> "Division by zero."]

\* raised by the interpreter, not by a raise statement of the engine
ErrRecursion == [exc |-> "RecursionError", msg |-> "maximum recursion depth exceeded"]

NoErr == [exc |-> "", msg |-> ""]

ZeroDec == Dec(0, <<0>>, 0)

\* a value returned, or an exception raised
Returned(val) == [ok |-> TRUE, val |-> val, err |-> NoErr]

Raised(err) == [ok |-> FALSE, val |-> ZeroDec, err |-> err]

\* an _apply_binop that gives the dividend back when the divisor is zero
ApplyBinop_unguarded(operator, left, right) ==
  IF operator = "Add" THEN Returned(DecAdd(left, right))
  ELSE IF operator = "Sub" THEN Returned(DecSub(left, right))
  ELSE IF operator = "Mult" THEN Returned(DecMul(left, right))
  ELSE IF operator = "Div"
  THEN IF DecIsZero(right) THEN Returned(left)
       ELSE Returned(DecDiv(left, right))
  ELSE Raised(ErrUnsupportedOperator)

\* an _apply_binop that takes every other operator for a multiplication
ApplyBinop_lenient(operator, left, right) ==
  IF operator = "Add" THEN Returned(DecAdd(left, right))
  ELSE IF operator = "Sub" THEN Returned(DecSub(left, right))
  ELSE IF operator = "Div"
  THEN IF DecIsZero(right) THEN Raised(ErrDivisionByZero)
       ELSE Returned(DecDiv(left, right))
  ELSE Returned(DecMul(left, right))

\* CalculatorEngine._apply_binop
ApplyBinop(operator, left, right) ==
  IF operator = "Add" THEN Returned(DecAdd(left, right))
  ELSE IF operator = "Sub" THEN Returned(DecSub(left, right))
  ELSE IF operator = "Mult" THEN Returned(DecMul(left, right))
  ELSE IF operator = "Div"
  THEN IF DecIsZero(right) THEN Raised(ErrDivisionByZero)
       ELSE Returned(DecDiv(left, right))
  ELSE Raised(ErrUnsupportedOperator)

\* _eval_node, line 89, once both operands are evaluated; an operand that
\* raised ends the walk with its exception, the left one first
BinOpOf(op, left, right) ==
  IF ~left.ok THEN left
  ELSE IF ~right.ok THEN right
  ELSE ApplyBinop(op, left.val, right.val)

\* _eval_node, lines 92-95, once the operand is evaluated; any other unary
\* operator falls through to the raise of line 100
UnaryOpOf(op, operand) ==
  IF ~operand.ok THEN operand
  ELSE IF op = "UAdd" THEN operand
  ELSE IF op = "USub" THEN Returned(DecNeg(operand.val))
  ELSE Raised(ErrUnsupportedElement)

\* CalculatorEngine._eval_node
RECURSIVE EvalNode(_)
EvalNode(node) ==
  IF node.k = "DeepUnaryOp" THEN Raised(ErrRecursion)
  ELSE IF node.k = "BinOp"
  THEN BinOpOf(node.op, EvalNode(node.l), EvalNode(node.r))
  ELSE IF node.k = "UnaryOp" THEN UnaryOpOf(node.op, EvalNode(node.l))
  ELSE IF node.k = "Constant" THEN Returned(node.v)
  ELSE Raised(ErrUnsupportedElement)

\* the result of evaluate: the formatted text, or the exception
Ok(text) == [ok |-> TRUE, text |-> text, err |-> NoErr]

Fail(err) == [ok |-> FALSE, text |-> <<>>, err |-> err]

\* evaluate, line 83: `return self._format_decimal(result)`
FormatResult(result) ==
  IF ~result.ok THEN Fail(result.err) ELSE Ok(FormatDecimal(result.val))

\* evaluate, lines 77-82: parse, then walk the tree
EvalTree(tree) ==
  IF ~tree.ok THEN Fail(ErrMalformed) ELSE FormatResult(EvalNode(tree.node))

\* an evaluate that parses first and looks at the characters afterwards
EvalCleaned_parse_first(cleaned) ==
  IF cleaned = <<>> THEN Fail(ErrEmpty)
  ELSE IF ~AstParse(cleaned).ok THEN Fail(ErrMalformed)
  ELSE IF ~AllowedExprMatch(cleaned) THEN Fail(ErrInvalidChar)
  ELSE EvalTree(AstParse(cleaned))

\* evaluate, lines 72-75: the two gates before the parser
EvalCleaned(cleaned) ==
  IF cleaned = <<>> THEN Fail(ErrEmpty)
  ELSE IF ~AllowedExprMatch(cleaned) THEN Fail(ErrInvalidChar)
  ELSE EvalTree(AstParse(cleaned))

\* CalculatorEngine.evaluate
Evaluate(expression) == EvalCleaned(Strip(expression))

(***************************************************************************)
(* CalculationHistory and ExpressionBuffer                                 *)
(***************************************************************************)

\* CalculationHistory(): both fields None
History_new == [last_expression |-> None, last_result |-> None]

\* an update that keeps the first pair once there is one: a history that
\* is not overwritten
History_update_keep_first(h, expression, result) ==
  IF h.last_expression = None
  THEN [last_expression |-> expression, last_result |-> result]
  ELSE h

\* an update that stores the expression and leaves the result as it was
History_update_expression_only(h, expression, result) ==
  [last_expression |-> expression, last_result |-> h.last_result]

\* CalculationHistory.update
History_update(h, expression, result) ==
  [last_expression |-> expression, last_result |-> result]

\* CalculationHistory.format of calculator_cli.py; a fixed fragment of a
\* message is one element of the text
History_format(h) ==
  IF h.last_expression = None THEN <<"No calculations yet.">>
  ELSE h.last_expression \o <<" = ">> \o h.last_result

\* CalculationHistory.format of calculator_tkinter.py
GUI_History_format(h) ==
  IF h.last_expression = None THEN <<"History: None">>
  ELSE <<"History: ">> \o h.last_expression \o <<" = ">> \o h.last_result

\* ExpressionBuffer.append
Buffer_append(b, text) == Append(b, text)

\* a backspace that puts the shortened chunk back even when nothing of it
\* is left
Buffer_backspace_keep_chunk(b) ==
  IF b = <<>> THEN b
  ELSE Append(SubSeq(b, 1, Len(b) - 1), DropLast(b[Len(b)]))

\* a backspace that drops the whole last chunk
Buffer_backspace_whole_chunk(b) ==
  IF b = <<>> THEN b ELSE SubSeq(b, 1, Len(b) - 1)

\* ExpressionBuffer.backspace
Buffer_backspace(b) ==
  IF b = <<>> THEN b
  ELSE LET last == b[Len(b)]
           rest == SubSeq(b, 1, Len(b) - 1)
       IN  IF Len(last) > 1 THEN Append(rest, DropLast(last)) ELSE rest

\* ExpressionBuffer.clear
Buffer_clear(b) == <<>>

\* ExpressionBuffer.get
Buffer_get(b) == Strip(Join(b))

\* ExpressionBuffer.is_empty
Buffer_is_empty(b) == Buffer_get(b) = <<>>

(***************************************************************************)
(* CalculatorCLI: the handlers as functions of the object's state          *)
(***************************************************************************)

QuitAliases == {<<"q">>, <<"q", "u", "i", "t">>, <<"e", "x", "i", "t">>, <<":", "q">>}

ClearAliases == {<<"c">>, <<"c", "l", "e", "a", "r">>, <<":", "c">>}

BackspaceAliases ==
  {<<"b">>, <<"b", "a", "c", "k">>,
   <<"b", "a", "c", "k", "s", "p", "a", "c", "e">>, <<":", "b">>, <<"BKSP">>}

HistoryAliases == {<<"h">>, <<"h", "i", "s", "t", "o", "r", "y">>, <<":", "h">>}

\* a lookup that takes the line as typed, capitals and all
CommandOf_as_typed(user_input) ==
  IF user_input \in QuitAliases THEN "quit"
  ELSE IF user_input \in ClearAliases THEN "clear"
  ELSE IF user_input \in BackspaceAliases THEN "backspace"
  ELSE IF user_input \in HistoryAliases THEN "history"
  ELSE IF user_input = <<"=">> THEN "evaluate"
  ELSE "none"

\* the branch CalculatorCLI._handle_command takes: "none" is `return False`
CommandOf(user_input) ==
  LET normalized == Lower(user_input)
  IN  IF normalized \in QuitAliases THEN "quit"
      ELSE IF normalized \in ClearAliases THEN "clear"
      ELSE IF normalized \in BackspaceAliases THEN "backspace"
      ELSE IF normalized \in HistoryAliases THEN "history"
      ELSE IF normalized = <<"=">> THEN "evaluate"
      ELSE "none"

\* what one pass of the loop of run() did: the handler that took the input,
\* the arguments engine.evaluate was called with, what it returned (None if
\* it was not called or raised) or raised, and the line printed
Cycle(handler, calls, result, err, out) ==
  [handler |-> handler, calls |-> calls, result |-> result, err |-> err, out |-> out]

NoCycle == Cycle("none", <<>>, None, NoErr, <<>>)

\* an _evaluate_expression that records the failed expression too
Evaluated_recording_failures(h, expression, handler, r) ==
  IF ~r.ok
  THEN [history |-> History_update(h, expression, <<"Error">>),
        cycle   |-> Cycle(handler, <<expression>>, None, r.err, <<"Error: ", r.err.msg>>)]
  ELSE [history |-> History_update(h, expression, r.text),
        cycle   |-> Cycle(handler, <<expression>>, r.text, NoErr,
                          expression \o <<" = ">> \o r.text)]

\* the exceptions of engine.evaluate that the except clauses of both
\* controllers name: DivisionByZero, and (InvalidOperation, ValueError)
CaughtExceptions == {"DivisionByZero", "InvalidOperation", "ValueError"}

\* the exception err goes past the except clauses to the caller
Propagates(err) == err # NoErr /\ err.exc \notin CaughtExceptions

\* _evaluate_expression once engine.evaluate has returned or raised r: the
\* history after it, and the cycle; an exception no clause names leaves the
\* method before anything is printed
Evaluated(h, expression, handler, r) ==
  IF ~r.ok /\ Propagates(r.err)
  THEN [history |-> h, cycle |-> Cycle(handler, <<expression>>, None, r.err, <<>>)]
  ELSE IF ~r.ok
  THEN [history |-> h,
        cycle   |-> Cycle(handler, <<expression>>, None, r.err,
                          IF r.err.exc = "DivisionByZero"
                          THEN <<"Error: Division by zero is not allowed.">>
                          ELSE <<"Error: ", r.err.msg>>)]
  ELSE [history |-> History_update(h, expression, r.text),
        cycle   |-> Cycle(handler, <<expression>>, r.text, NoErr,
                          expression \o <<" = ">> \o r.text)]

\* CalculatorCLI._evaluate_expression
CLI_evaluate_expression(h, expression, handler) ==
  Evaluated(h, expression, handler, Evaluate(expression))

NothingToEvaluate(handler) == Cycle(handler, <<>>, None, NoErr, <<"Nothing to evaluate.">>)

\* the object after a handler: the buffer b and what the evaluation e left
WithBuffer(b, e) == [buffer |-> b, history |-> e.history, cycle |-> e.cycle]

\* _evaluate_buffer once buffer.get() has returned expression
EvaluateBufferOf(b, h, handler, expression) ==
  IF expression = <<>>
  THEN [buffer |-> b, history |-> h, cycle |-> NothingToEvaluate(handler)]
  ELSE WithBuffer(Buffer_clear(b), CLI_evaluate_expression(h, expression, handler))

\* CalculatorCLI._evaluate_buffer
CLI_evaluate_buffer(b, h, handler) == EvaluateBufferOf(b, h, handler, Buffer_get(b))

\* CalculatorCLI._handle_command for the branches that return True
CLI_handle_command(b, h, user_input) ==
  LET c == CommandOf(user_input)
  IN  IF c = "clear"
      THEN [buffer |-> Buffer_clear(b), history |-> h,
            cycle |-> Cycle("clear", <<>>, None, NoErr, <<"Buffer cleared.">>)]
      ELSE IF c = "backspace"
      THEN [buffer |-> Buffer_backspace(b), history |-> h,
            cycle |-> Cycle("backspace", <<>>, None, NoErr, <<"Backspace applied.">>)]
      ELSE IF c = "history"
      THEN [buffer |-> b, history |-> h,
            cycle |-> Cycle("history", <<>>, None, NoErr, History_format(h))]
      ELSE CLI_evaluate_buffer(b, h, "evaluate")

\* a handler that always goes through the buffer: the text is appended,
\* and evaluated from there when the marker asks for it
HandleText_through_buffer(b, h, user_input, evaluate_after) ==
  IF evaluate_after
  THEN CLI_evaluate_buffer(Buffer_append(b, user_input), h, "expression")
  ELSE [buffer |-> Buffer_append(b, user_input), history |-> h,
        cycle |-> Cycle("expression", <<>>, None, NoErr, <<>>)]

\* a handler that evaluates the buffer after every text it appends
HandleText_eager(b, h, user_input, evaluate_after) ==
  IF Buffer_is_empty(b)
  THEN IF user_input # <<>>
       THEN WithBuffer(b, CLI_evaluate_expression(h, user_input, "expression"))
       ELSE [buffer |-> b, history |-> h, cycle |-> NothingToEvaluate("expression")]
  ELSE CLI_evaluate_buffer(Buffer_append(b, user_input), h, "expression")

\* _handle_expression_input, lines 186-196, with the marker taken off
HandleText(b, h, user_input, evaluate_after) ==
  IF Buffer_is_empty(b)
  THEN IF user_input # <<>>
       THEN WithBuffer(b, CLI_evaluate_expression(h, user_input, "expression"))
       ELSE [buffer |-> b, history |-> h, cycle |-> NothingToEvaluate("expression")]
  ELSE IF evaluate_after
  THEN CLI_evaluate_buffer(Buffer_append(b, user_input), h, "expression")
  ELSE [buffer |-> Buffer_append(b, user_input), history |-> h,
        cycle |-> Cycle("expression", <<>>, None, NoErr, <<>>)]

\* CalculatorCLI._handle_expression_input
CLI_handle_expression_input(b, h, user_input) ==
  IF EndsWith(user_input, "=")
  THEN HandleText(b, h, Strip(DropLast(user_input)), TRUE)
  ELSE HandleText(b, h, user_input, FALSE)

\* CalculatorCLI._build_prompt
CLI_build_prompt(b) ==
  LET current == Buffer_get(b)
  IN  IF current # <<>> THEN <<"[">> \o current \o <<"] > ">> ELSE <<"> ">>

(***************************************************************************)
(* The inputs drawn                                                        *)
(***************************************************************************)

\* the longest generated input line
MaxLineLen == 2

\* the most chunks the buffer is let to hold
MaxChunks == 2

\* the longest expression typed on the keypad
MaxExprLen == 3

\* input lines that are command aliases, some in upper case or padded
CommandLines ==
  {<<"c">>, <<"c", "l", "e", "a", "r">>, <<"C", "L", "E", "A", "R">>,
   <<":", "c">>, <<" ", "c", " ">>, <<"b">>, <<"b", "a", "c", "k">>,
   <<"b", "a", "c", "k", "s", "p", "a", "c", "e">>,
   <<"B", "a", "c", "k">>, <<":", "b">>, <<"BKSP">>, <<"h">>,
   <<"h", "i", "s", "t", "o", "r", "y">>, <<":", "h">>, <<"H">>, <<"=">>,
   <<" ", "=", " ">>, <<"q">>, <<"q", "u", "i", "t">>,
   <<"e", "x", "i", "t">>, <<":", "q">>, <<"Q">>}

\* input lines that are not: empty, blank, expressions whole and partial,
\* with and without the trailing evaluate marker
TextLines ==
  {<<>>, <<" ">>, <<"3", "+", "4">>, <<" ", "3", "+", "4", " ">>,
   <<"3", "+">>, <<"4">>, <<"4", "=">>, <<"3", "+", "4", "=">>,
   <<"3", "+", "4", "=", "=">>, <<"2", " ", "=">>, <<"1", "/", "0">>,
   <<"1", "/", "0", "=">>, <<"x">>, <<"c", "=">>, <<"c", "c">>,
   <<"(", ")">>, <<"4", "/", "2">>, <<"0", ".", "1", "+", "0", ".", "2">>,
   <<"1", " ", "2">>, <<"=", " ", "=">>, <<"/", "0", "=">>}

\* every text of at most n characters of S
TextsUpTo(S, n) == UNION {[1..k -> S] : k \in 0..n}

\* every line of at most MaxLineLen of these characters
ShortLines == TextsUpTo({"1", "0", "/", "=", " "}, MaxLineLen)

\* what input() returns
Lines == CommandLines \cup TextLines \cup ShortLines

\* the texts ExpressionBuffer.append is called with on its own
Chunks == {<<>>, <<" ">>, <<"1">>, <<"1", " ">>, <<"3", "+">>, <<"1", "/">>}

\* the keys pressed on the keypad: some the handler takes, "x" it ignores,
\* and the empty event.char of a key that types nothing
Keys == {"1", "0", "/", "+", "x", ""}

(***************************************************************************)
(* State                                                                   *)
(***************************************************************************)

VARIABLES
  frontend,      \* which program runs: "cli" (calculator_cli.py) or "gui";
                 \* "engine" and "pair" when parts are driven on their own
  pc,            \* "running", or "exited" once run() has returned or raised
  buffer,        \* CalculatorCLI.buffer._buffer: the list of chunks
  history,       \* CalculatorCLI.history
  cycle,         \* what the last pass of the loop (or the last event) did
  expression,    \* CalculatorGUI.expression
  result,        \* CalculatorGUI.result
  gui_history,   \* CalculatorGUI.history
  history_text,  \* CalculatorGUI.history_text
  script         \* ExpressionBuffer driven on its own: the calls made so far

vars == <<frontend, pc, buffer, history, cycle, expression, result, gui_history,
          history_text, script>>

cli_vars == <<buffer, history>>

gui_vars == <<expression, result, gui_history, history_text>>

unit_vars == <<script>>

\* the calls made on an ExpressionBuffer since it was created or cleared:
\* the chunks appended, then the number of backspaces; plain is FALSE once
\* an append followed a backspace
NoScript == [appended |-> <<>>, backspaces |-> 0, plain |-> TRUE]

\* CalculatorCLI.__init__ and CalculatorGUI.__init__
Init ==
  /\ frontend \in {"cli", "gui"}
  /\ pc = "running"
  /\ buffer = <<>>
  /\ history = History_new
  /\ cycle = NoCycle
  /\ expression = <<>>
  /\ result = <<"0">>
  /\ gui_history = History_new
  /\ history_text = GUI_History_format(History_new)
  /\ script = NoScript

(***************************************************************************)
(* CalculatorCLI.run: one pass of the loop per action                      *)
(***************************************************************************)

\* CalculatorCLI.__init__ alone
InitCli == Init /\ frontend = "cli"

CliRunning == frontend = "cli" /\ pc = "running"

\* the object's fields after a handler returned n, or after an exception
\* left it: run() has no except clause around its handlers, so the exception
\* ends the loop and the program
CliBecomes(n) ==
  /\ buffer' = n.buffer
  /\ history' = n.history
  /\ cycle' = n.cycle
  /\ pc' = IF Propagates(n.cycle.err) THEN "exited" ELSE pc

\* input() raises EOFError or KeyboardInterrupt: the loop breaks
CliEndOfInput ==
  /\ CliRunning
  /\ pc' = "exited"
  /\ cycle' = Cycle("eof", <<>>, None, NoErr, <<"Exiting calculator.">>)
  /\ UNCHANGED <<frontend, cli_vars, gui_vars, unit_vars>>

\* `if not user_input: continue`
CliBlank(raw) ==
  /\ CliRunning
  /\ Strip(raw) = <<>>
  /\ cycle' = Cycle("blank", <<>>, None, NoErr, <<>>)
  /\ UNCHANGED <<frontend, pc, cli_vars, gui_vars, unit_vars>>

\* _handle_command raises SystemExit, which run() does not catch
CliQuit(raw) ==
  /\ CliRunning
  /\ Strip(raw) # <<>>
  /\ CommandOf(Strip(raw)) = "quit"
  /\ pc' = "exited"
  /\ cycle' = Cycle("quit", <<>>, None, NoErr, <<"Goodbye!">>)
  /\ UNCHANGED <<frontend, cli_vars, gui_vars, unit_vars>>

\* _handle_command returns True
CliCommand(raw) ==
  /\ CliRunning
  /\ Strip(raw) # <<>>
  /\ CommandOf(Strip(raw)) \notin {"quit", "none"}
  /\ CliBecomes(CLI_handle_command(buffer, history, Strip(raw)))
  /\ UNCHANGED <<frontend, gui_vars, unit_vars>>

\* _handle_command returns False: _handle_expression_input
CliExpression(raw) ==
  /\ CliRunning
  /\ Strip(raw) # <<>>
  /\ CommandOf(Strip(raw)) = "none"
  /\ Buffer_is_empty(buffer) \/ Len(buffer) < MaxChunks
  /\ CliBecomes(CLI_handle_expression_input(buffer, history, Strip(raw)))
  /\ UNCHANGED <<frontend, gui_vars, unit_vars>>

\* the pass of the loop that reads raw; the handler recorded tells whether
\* _handle_expression_input ran
CliStep(raw) ==
  IF cycle'.handler = "expression"
  THEN CliExpression(raw)
  ELSE CliBlank(raw) \/ CliQuit(raw) \/ CliCommand(raw)

\* one pass of the loop, the line typed drawn from L
CliNext(L) ==
  \/ CliEndOfInput
  \/ \E raw \in L : CliBlank(raw)
  \/ \E raw \in L : CliQuit(raw)
  \/ \E raw \in L : CliCommand(raw)
  \/ \E raw \in L : CliExpression(raw)

(***************************************************************************)
(* CalculatorGUI: one event per action                                     *)
(***************************************************************************)

GuiRunning == frontend = "gui"

\* the characters _on_key appends: `char in "0123456789+-*/()."`, which the
\* empty string satisfies
KeypadChars == DigitChars \cup {"+", "-", "*", "/", "(", ")", "."}

\* CalculatorGUI.append
GUI_append(current, value) == current \o value

\* a backspace key that leaves the string as it is
GUI_backspace_ignored(current) == current

\* CalculatorGUI.backspace
GUI_backspace(current) == DropLast(current)

\* evaluate once engine.evaluate has returned or raised r: the widgets and
\* the history after it, and the cycle; an exception no clause names leaves
\* the callback with the widgets as they were, and Tk's main loop goes on
GuiEvaluated(expr, h, htext, r) ==
  IF ~r.ok /\ Propagates(r.err)
  THEN [result |-> result, history |-> h, history_text |-> htext,
        cycle |-> Cycle("gui_evaluate", <<expr>>, None, r.err, <<>>)]
  ELSE IF ~r.ok
  THEN [result |-> IF r.err.exc = "DivisionByZero"
                   THEN <<"Error: Division by zero">>
                   ELSE <<"Error: ", r.err.msg>>,
        history |-> h, history_text |-> htext,
        cycle |-> Cycle("gui_evaluate", <<expr>>, None, r.err, <<>>)]
  ELSE [result |-> r.text,
        history |-> History_update(h, expr, r.text),
        history_text |-> GUI_History_format(History_update(h, expr, r.text)),
        cycle |-> Cycle("gui_evaluate", <<expr>>, r.text, NoErr, <<>>)]

\* CalculatorGUI.evaluate
GUI_evaluate(expr, h, htext) == GuiEvaluated(expr, h, htext, Evaluate(expr))

\* the widgets and the history after evaluate returned n
GuiBecomes(n) ==
  /\ result' = n.result
  /\ gui_history' = n.history
  /\ history_text' = n.history_text
  /\ cycle' = n.cycle

\* CalculatorGUI._on_key, and the buttons that call append
GuiKey(char) ==
  /\ GuiRunning
  /\ IF char = "" \/ char \in KeypadChars
     THEN /\ Len(expression) + (IF char = "" THEN 0 ELSE 1) <= MaxExprLen
          /\ expression' = GUI_append(expression, IF char = "" THEN <<>> ELSE <<char>>)
          /\ cycle' = Cycle("gui_append", <<>>, None, NoErr, <<>>)
     ELSE /\ expression' = expression
          /\ cycle' = Cycle("gui_ignored", <<>>, None, NoErr, <<>>)
  /\ UNCHANGED <<frontend, pc, cli_vars, result, gui_history, history_text, unit_vars>>

\* CalculatorGUI.clear: the C button and <Escape>
GuiClear ==
  /\ GuiRunning
  /\ expression' = <<>>
  /\ result' = <<"0">>
  /\ cycle' = Cycle("gui_clear", <<>>, None, NoErr, <<>>)
  /\ UNCHANGED <<frontend, pc, cli_vars, gui_history, history_text, unit_vars>>

\* CalculatorGUI.backspace: the erase button and <BackSpace>
GuiBackspace ==
  /\ GuiRunning
  /\ expression' = GUI_backspace(expression)
  /\ cycle' = Cycle("gui_backspace", <<>>, None, NoErr, <<>>)
  /\ UNCHANGED <<frontend, pc, cli_vars, result, gui_history, history_text, unit_vars>>

\* CalculatorGUI.evaluate: the = button and <Return>
GuiEvaluate ==
  /\ GuiRunning
  /\ GuiBecomes(GUI_evaluate(expression, gui_history, history_text))
  /\ UNCHANGED <<frontend, pc, cli_vars, expression, unit_vars>>

GuiNext ==
  \/ \E char \in Keys : GuiKey(char)
  \/ GuiClear
  \/ GuiBackspace
  \/ GuiEvaluate

\* either program, driven by its user
Next == CliNext(Lines) \/ GuiNext

Spec == Init /\ [][Next]_vars

(***************************************************************************)
(* The objects driven through their methods, as a test or an embedding     *)
(* program does: CalculatorCLI with chunks put into its buffer, and        *)
(* ExpressionBuffer on its own                                             *)
(***************************************************************************)

\* the most backspaces in a row on a buffer driven on its own
MaxBackspaces == 4

\* cli.buffer.append(text), called from outside the loop of run()
BufferAppendCall(text) ==
  /\ CliRunning
  /\ Len(buffer) < MaxChunks
  /\ buffer' = Buffer_append(buffer, text)
  /\ cycle' = Cycle("append_call", <<>>, None, NoErr, <<>>)
  /\ UNCHANGED <<frontend, pc, history, gui_vars, unit_vars>>

\* the lines typed at a CalculatorCLI whose buffer is filled from outside:
\* every command line, and a few texts
ApiLines ==
  CommandLines \cup
  {<<" ">>, <<"4">>, <<"4", "=">>, <<"x">>, <<"x", "=">>, <<"/", "0", "=">>,
   <<"1", " ", "2">>, <<"=", "=">>}

NextAPI == CliNext(ApiLines) \/ \E text \in Chunks : BufferAppendCall(text)

\* CalculatorCLI with the buffer also filled from outside
SpecAPI == InitCli /\ [][NextAPI]_vars

\* ExpressionBuffer.append on a buffer driven on its own
UnitAppend(text) ==
  /\ Len(buffer) < MaxChunks + 1
  /\ buffer' = Buffer_append(buffer, text)
  /\ script' = IF script.plain /\ script.backspaces = 0
               THEN [script EXCEPT !.appended = Append(@, text)]
               ELSE [appended |-> <<>>, backspaces |-> 0, plain |-> FALSE]
  /\ cycle' = Cycle("unit_append", <<>>, None, NoErr, <<>>)
  /\ UNCHANGED <<frontend, pc, history, gui_vars>>

\* ExpressionBuffer.backspace on a buffer driven on its own
UnitBackspace ==
  /\ script.backspaces < MaxBackspaces
  /\ buffer' = Buffer_backspace(buffer)
  /\ script' = IF script.plain
               THEN [script EXCEPT !.backspaces = @ + 1]
               ELSE script
  /\ cycle' = Cycle("unit_backspace", <<>>, None, NoErr, <<>>)
  /\ UNCHANGED <<frontend, pc, history, gui_vars>>

\* ExpressionBuffer.clear on a buffer driven on its own
UnitClear ==
  /\ buffer' = Buffer_clear(buffer)
  /\ script' = NoScript
  /\ cycle' = Cycle("unit_clear", <<>>, None, NoErr, <<>>)
  /\ UNCHANGED <<frontend, pc, history, gui_vars>>

NextBuffer ==
  \/ \E text \in Chunks : UnitAppend(text)
  \/ UnitBackspace
  \/ UnitClear

\* ExpressionBuffer on its own
SpecBuffer == InitCli /\ [][NextBuffer]_vars

\* the lines that are neither blank nor a command
NonCommandLines ==
  {raw \in Lines : Strip(raw) # <<>> /\ CommandOf(Strip(raw)) = "none"}

\* the console program alone, its user typing on: the line x is typed
\* whenever it would change what is on the screen
SpecFair ==
  /\ InitCli
  /\ [][CliNext(Lines)]_vars
  /\ WF_vars(CliExpression(<<"x">>))

\* the longest text of the engine's alphabet handed to evaluate
MaxInputLen == 3

\* characters evaluate is called with: digits, signs, operators, brackets,
\* the point, a space, and a letter the gate refuses
EngineChars == {"0", "1", "+", "-", "*", "/", "(", ")", ".", " ", "x"}

\* longer texts evaluate is called with
EngineSamples ==
  {<<"1", "0", " ", "/", " ", "0">>,
   <<"1", "/", "0", ".", "0">>,
   <<"1", "/", "-", "0">>,
   <<"1", "/", "(", "1", "-", "1", ")">>,
   <<"1", "/", "0", "+", "(", ")">>,
   <<"(", ")", "+", "1", "/", "0">>,
   <<"1", "/", "0", "/", "/", "1">>,
   <<"2", "*", "*", "3">>,
   <<"7", "/", "/", "2">>,
   <<"(", "1", ")", "(", "2", ")">>,
   <<"4", "/", "2">>,
   <<"0", "*", "-", "1">>,
   <<"0", "/", "-", "5">>,
   <<"1", "-", "1">>,
   <<"2", "/", "3">>,
   <<"0", ".", "1", " ", "+", " ", "0", ".", "2">>,
   <<"1", ".", "5", "0", "*", "2">>,
   <<"_", "_", "i", "m", "p", "o", "r", "t", "_", "_", "(", "'", "o", "s", "'", ")">>,
   <<"1", " ", "i", "f", " ", "T", "r", "u", "e", " ", "e", "l", "s", "e", " ", "2">>,
   <<"(", "x">>,
   <<"1", "+", "x", "+">>,
   <<"1", ".", "0", "0", "0", "0", "0", "0", "0", "0", "0", "0", "0", "0", "0", "0", "0", "1">>,
   <<"9", "0", "0", "7", "1", "9", "9", "2", "5", "4", "7", "4", "0", "9", "9", "3", ".", "0">>}

\* what CalculatorEngine.evaluate is called with
EngineInputs == TextsUpTo(EngineChars, MaxInputLen) \cup EngineSamples

\* a CalculatorEngine about to be called with the text in expression
InitEngine ==
  /\ frontend = "engine"
  /\ pc = "running"
  /\ buffer = <<>>
  /\ history = History_new
  /\ cycle = NoCycle
  /\ expression \in EngineInputs
  /\ result = <<"0">>
  /\ gui_history = History_new
  /\ history_text = GUI_History_format(History_new)
  /\ script = NoScript

\* evaluate has returned or raised r
EngineReturns(r) ==
  cycle' = Cycle("engine", <<expression>>, IF r.ok THEN r.text ELSE None, r.err, <<>>)

\* CalculatorEngine.evaluate(expression)
EngineEvaluate ==
  /\ frontend = "engine"
  /\ cycle = NoCycle
  /\ EngineReturns(Evaluate(expression))
  /\ UNCHANGED <<frontend, pc, cli_vars, gui_vars, unit_vars>>

NextEngine == EngineEvaluate

\* CalculatorEngine on its own, called once with one text
SpecEngine == InitEngine /\ [][NextEngine]_vars

(***************************************************************************)
(* The keypad's expression string and an ExpressionBuffer side by side,    *)
(* each keystroke handed to both: CalculatorGUI.append, backspace and      *)
(* clear on the string, ExpressionBuffer.append, backspace and clear on    *)
(* the buffer, the keystroke being one chunk.                              *)
(***************************************************************************)

InitPair ==
  /\ frontend = "pair"
  /\ pc = "running"
  /\ buffer = <<>>
  /\ history = History_new
  /\ cycle = NoCycle
  /\ expression = <<>>
  /\ result = <<"0">>
  /\ gui_history = History_new
  /\ history_text = GUI_History_format(History_new)
  /\ script = NoScript

\* CalculatorGUI.append(char) and ExpressionBuffer.append(char)
PairKey(char) ==
  /\ frontend = "pair"
  /\ Len(expression) < MaxExprLen
  /\ expression' = GUI_append(expression, <<char>>)
  /\ buffer' = Buffer_append(buffer, <<char>>)
  /\ cycle' = Cycle("pair_append", <<>>, None, NoErr, <<>>)
  /\ UNCHANGED <<frontend, pc, history, result, gui_history, history_text, unit_vars>>

\* CalculatorGUI.backspace and ExpressionBuffer.backspace
PairBackspace ==
  /\ frontend = "pair"
  /\ expression' = GUI_backspace(expression)
  /\ buffer' = Buffer_backspace(buffer)
  /\ cycle' = Cycle("pair_backspace", <<>>, None, NoErr, <<>>)
  /\ UNCHANGED <<frontend, pc, history, result, gui_history, history_text, unit_vars>>

\* CalculatorGUI.clear and ExpressionBuffer.clear
PairClear ==
  /\ frontend = "pair"
  /\ expression' = <<>>
  /\ result' = <<"0">>
  /\ buffer' = Buffer_clear(buffer)
  /\ cycle' = Cycle("pair_clear", <<>>, None, NoErr, <<>>)
  /\ UNCHANGED <<frontend, pc, history, gui_history, history_text, unit_vars>>

NextPair ==
  \/ \E char \in KeypadChars : PairKey(char)
  \/ PairBackspace
  \/ PairClear

SpecPair == InitPair /\ [][NextPair]_vars

(***************************************************************************)
(* ExpressionBuffer on its own, every chunk appended being non-empty       *)
(***************************************************************************)

NonEmptyChunks == Chunks \ {<<>>}

NextChunks ==
  \/ \E text \in NonEmptyChunks : UnitAppend(text)
  \/ UnitBackspace
  \/ UnitClear

SpecChunks == InitCli /\ [][NextChunks]_vars

(***************************************************************************)
(* The console session with a line nested deeper than the interpreter      *)
(* recurses                                                                *)
(***************************************************************************)

\* '-' more than RecursionLimit times, an operand and the marker: each sign
\* is a prefix operator applied to the rest of the line
DeepLine == [i \in 1..(RecursionLimit + 1) |-> "-"] \o <<"1", "=">>

DeepLines == Lines \cup {DeepLine}

SpecDeep == InitCli /\ [][CliNext(DeepLines)]_vars

(***************************************************************************)
(* Properties                                                              *)
(***************************************************************************)

\* a pass of the loop, or a keypad event, that called engine.evaluate
EngineCalled(c) == c.calls # <<>>

\* ... and the call raised
EvaluationFailed(c) == c.calls # <<>> /\ c.err # NoErr

\* ... and the call returned a result
EvaluationSucceeded(c) == c.calls # <<>> /\ c.err = NoErr /\ c.result # None

\* a pass of the loop that evaluated the buffer: the '=' command, or a text
\* with the trailing marker while the buffer held something
BufferEvaluation ==
  /\ cycle'.handler \in {"evaluate", "expression"}
  /\ ~Buffer_is_empty(buffer)
  /\ EngineCalled(cycle')

\* C1: when the console buffer holds content, a buffer evaluation is
\* triggered and engine.evaluate fails, the buffer content after the cycle
\* is the content the evaluation was attempted on (the expression passed to
\* the engine): the buffer is cleared only on success
C1_FailedEvaluationKeepsBuffer ==
  [][(BufferEvaluation /\ EvaluationFailed(cycle'))
       => Buffer_get(buffer') = cycle'.calls[1]]_vars

\* the console buffer holds something: buffer-accumulation mode
AccumulationMode == frontend = "cli" /\ Buffer_get(buffer) # <<>>

\* C2: from a fresh console session, a user who keeps typing text lines
\* (every line that is neither blank nor a command, again and again) and
\* does not leave comes to a state where ExpressionBuffer.get() is
\* non-empty: buffer-accumulation mode is reachable by typing
C2_AccumulationModeReached ==
  (\A raw \in NonCommandLines : []<><<CliExpression(raw)>>_vars)
    => <>(pc = "exited" \/ AccumulationMode)

\* in the console program as run() drives it the buffer never holds a chunk
BufferStaysEmpty == frontend = "cli" => buffer = <<>>

\* no evaluation has succeeded yet
HistoryUnset == history = History_new /\ gui_history = History_new

\* C3: in both front ends a cycle whose evaluation fails, and the commands
\* that do not evaluate (clear, backspace, show-history), leave
\* CalculationHistory exactly as it was
C3_FailureLeavesHistory ==
  [][(\/ EvaluationFailed(cycle')
      \/ cycle'.handler \in {"clear", "backspace", "history",
                             "gui_clear", "gui_backspace"})
       => /\ history' = history
          /\ gui_history' = gui_history
          /\ history_text' = history_text]_vars

\* a division by zero on the keypad after an evaluation had succeeded
C3_FailedAfterSuccess ==
  /\ EvaluationFailed(cycle)
  /\ cycle.err = ErrDivisionByZero
  /\ gui_history # History_new

\* the pair a successful evaluation leaves in the history
LatestPair(c) == [last_expression |-> c.calls[1], last_result |-> c.result]

\* the history of the front end at work, one step on
SingleSlotStep ==
  /\ history' = IF frontend = "cli" /\ EvaluationSucceeded(cycle')
                THEN LatestPair(cycle') ELSE history
  /\ gui_history' = IF frontend = "gui" /\ EvaluationSucceeded(cycle')
                    THEN LatestPair(cycle') ELSE gui_history
  /\ history_text' = GUI_History_format(gui_history')
  /\ cycle'.handler = "history" => cycle'.out = History_format(history')

\* C4: history is single-slot: unset until an evaluation succeeds, then
\* exactly the (expression, result) pair of the most recent successful
\* evaluation, which is what format() shows; a failed evaluation and every
\* other cycle leave it alone
C4_HistorySingleSlot == HistoryUnset /\ [][SingleSlotStep]_vars

\* the console shows the pair of 4/2 after a later evaluation has failed
C4_PairSurvivesFailure ==
  /\ EvaluationFailed(cycle)
  /\ history = [last_expression |-> <<"4", "/", "2">>, last_result |-> <<"2">>]
  /\ History_format(history) = <<"4", "/", "2", " = ", "2">>

\* C5: backspace on an empty chunk sequence is a no-op, and otherwise the
\* concatenation of all chunks after it is the concatenation before it with
\* exactly its one last character removed, never zero characters (read in
\* the claim's favour where the chunks hold no character at all: then
\* there is none to remove)
C5_BackspaceRemovesOneCharacter ==
  [][cycle'.handler = "unit_backspace"
       => IF buffer = <<>> THEN buffer' = <<>>
          ELSE IF Join(buffer) = <<>> THEN Join(buffer') = <<>>
          ELSE /\ Len(Join(buffer')) = Len(Join(buffer)) - 1
               /\ Join(buffer') = DropLast(Join(buffer))]_vars

\* appends to a fresh buffer followed by as many backspaces
AppendsThenAsManyBackspaces ==
  /\ script.plain
  /\ script.backspaces = Len(script.appended)

\* every chunk appended held at most one character
SingleCharacterChunks == \A i \in 1..Len(script.appended) : Len(script.appended[i]) <= 1

\* C6 as stated: after any sequence of appends to an empty buffer followed
\* by an equal number of backspaces, get() returns the empty string
C6_BackspacesUndoAppends == AppendsThenAsManyBackspaces => Buffer_get(buffer) = <<>>

\* C6: after appends of chunks of at most one character each to an empty
\* buffer followed by an equal number of backspaces, the buffer holds
\* nothing and get() returns the empty string
C6_BackspacesUndoKeystrokes ==
  (AppendsThenAsManyBackspaces /\ SingleCharacterChunks)
    => (buffer = <<>> /\ Buffer_get(buffer) = <<>>)

\* two keystrokes, one of them a character, taken back by two backspaces
C6_TwoKeystrokesUndone ==
  /\ AppendsThenAsManyBackspaces
  /\ SingleCharacterChunks
  /\ Len(script.appended) = 2
  /\ \E i \in 1..2 : Len(script.appended[i]) = 1

\* C7: in the console and on the keypad alike, a successful evaluation of
\* the pending expression leaves it empty and a failed one leaves it as it
\* was (the expression passed to the engine)
C7_ClearedOnSuccessKeptOnFailure ==
  [][/\ (cycle'.handler = "gui_evaluate" /\ EngineCalled(cycle'))
          => expression' = (IF EvaluationSucceeded(cycle') THEN <<>> ELSE expression)
     /\ BufferEvaluation
          => Buffer_get(buffer') =
               (IF EvaluationSucceeded(cycle') THEN <<>> ELSE cycle'.calls[1])]_vars


\* a pass of the loop that takes the text of raw, no marker at its end,
\* while the buffer holds something
AccumulationStep(raw) ==
  /\ ~Buffer_is_empty(buffer)
  /\ ~EndsWith(Strip(raw), "=")
  /\ CliExpression(raw)

\* the line asks for an evaluation: the '=' command, or a trailing marker
AsksToEvaluate(raw) == EndsWith(Strip(raw), "=")

\* in a pass that reads raw the engine is called on the buffer only if raw
\* asks for it
EvaluatesOnlyOnRequest ==
  \A raw \in ApiLines :
    (BufferEvaluation /\ ~AsksToEvaluate(raw)) => ~CliStep(raw)

\* the text ends in a whitespace character
EndsInWhitespace(s) == s # <<>> /\ s[Len(s)] \in WhitespaceChars

\* C8: with a non-empty buffer, a non-command text without trailing '=' is
\* appended: the content of the buffer (the concatenation of its chunks)
\* becomes the old content followed by the text, and get() returns it
\* trimmed, which is the old get() followed by the text unless the old
\* content ended in whitespace ("3+" then "4" reads "3+4"); in that cycle
\* the engine is not invoked and history is unchanged; the buffer is
\* evaluated only when a command or marker asks for it
C8_ChunksGrowByTheText ==
  [][/\ \A raw \in ApiLines :
          AccumulationStep(raw)
            => /\ Join(buffer') = Join(buffer) \o Strip(raw)
               /\ Buffer_get(buffer') = Strip(Join(buffer) \o Strip(raw))
               /\ ~EndsInWhitespace(Join(buffer))
                    => Buffer_get(buffer') = Buffer_get(buffer) \o Strip(raw)
               /\ ~EngineCalled(cycle')
               /\ history' = history
     /\ EvaluatesOnlyOnRequest]_vars

\* "3+" then "4": the buffer reads "3+4" and nothing was evaluated
C8_ThreePlusFour ==
  /\ cycle.handler = "expression"
  /\ ~EngineCalled(cycle)
  /\ buffer = << <<"3", "+">>, <<"4">> >>
  /\ Buffer_get(buffer) = <<"3", "+", "4">>

\* the text with one trailing '=' marker, if there is one, taken off
WithoutMarker(text) == IF EndsWith(text, "=") THEN Strip(DropLast(text)) ELSE text

\* a pass of the loop that takes the text of raw while the buffer is empty
DirectStep(raw) ==
  /\ frontend = "cli"
  /\ Buffer_is_empty(buffer)
  /\ CliStep(raw)
  /\ cycle'.handler = "expression"

\* what each line leaves for the engine
DirectArgument == [raw \in Lines |-> WithoutMarker(Strip(raw))]

\* C9: with an empty buffer a non-command text is evaluated in that same
\* cycle, one trailing '=' marker (if present) stripped first, and the
\* buffer is neither appended to nor cleared: it is empty before and after,
\* whether the evaluation succeeds or fails
C9_DirectMode ==
  [][\A raw \in Lines :
       \/ /\ cycle'.calls = <<DirectArgument[raw]>>
          /\ buffer' = buffer
          /\ Buffer_is_empty(buffer')
       \/ ~DirectStep(raw)]_vars

\* "3+4==" typed at an empty buffer: "3+4=" went to the engine, which
\* refused it, and the buffer is still empty
C9_OneMarkerStripped ==
  /\ cycle.handler = "expression"
  /\ cycle.calls = << <<"3", "+", "4", "=">> >>
  /\ EvaluationFailed(cycle)
  /\ Buffer_is_empty(buffer)

\* the aliases as C10 lists them
ListedQuit == {<<"q">>, <<"q", "u", "i", "t">>, <<"e", "x", "i", "t">>}

ListedClear == {<<"c">>, <<"c", "l", "e", "a", "r">>}

ListedBackspace ==
  {<<"b">>, <<"b", "a", "c", "k">>, <<"b", "a", "c", "k", "s", "p", "a", "c", "e">>}

ListedHistory == {<<"h">>, <<"h", "i", "s", "t", "o", "r", "y">>}

\* the handler a line is dispatched to when the aliases are quit, clear,
\* backspace and history, and normalized is the form of the line they are
\* looked up by
Dispatch(normalized, quit, clear, backspace, history_) ==
  IF normalized \in quit THEN "quit"
  ELSE IF normalized \in clear THEN "clear"
  ELSE IF normalized \in backspace THEN "backspace"
  ELSE IF normalized \in history_ THEN "history"
  ELSE IF normalized = <<"=">> THEN "evaluate"
  ELSE "expression"

\* the handler of each line by the aliases as listed, looked up by the
\* lower-cased line
ListedDispatch ==
  [raw \in ApiLines |->
     Dispatch(Lower(raw), ListedQuit, ListedClear, ListedBackspace, ListedHistory)]

\* the handler of each line by the aliases with :q, :c, :b, :h and the
\* erase sign among them, looked up by the trimmed, lower-cased line
TrimmedDispatch ==
  [raw \in ApiLines |->
     IF Strip(raw) = <<>> THEN "blank"
     ELSE Dispatch(Lower(Strip(raw)),
                   ListedQuit \cup {<<":", "q">>},
                   ListedClear \cup {<<":", "c">>},
                   ListedBackspace \cup {<<":", "b">>, <<"BKSP">>},
                   ListedHistory \cup {<<":", "h">>})]

\* C10 as stated: a line is dispatched as a command exactly when its
\* lower-cased form is one of the listed aliases, whatever the buffer
\* holds, and every other text is handled as expression text
C10_ListedAliasesOnly ==
  [][\A raw \in ApiLines :
       cycle'.handler = ListedDispatch[raw] \/ ~CliStep(raw)]_vars

\* C10: a line is dispatched as a command exactly when its trimmed,
\* lower-cased form is one of clear = {c, clear, :c}, backspace = {b, back,
\* backspace, :b, the erase sign}, evaluate = {=}, show-history = {h,
\* history, :h}, quit = {q, quit, exit, :q}, whatever the buffer holds; a
\* blank line is skipped, and every other text is handled as expression text
C10_TrimmedAliases ==
  [][\A raw \in ApiLines :
       cycle'.handler = TrimmedDispatch[raw] \/ ~CliStep(raw)]_vars

\* a backspace command was dispatched while the buffer held two chunks
C10_CommandOnFilledBuffer ==
  /\ cycle.handler = "backspace"
  /\ Len(buffer) = 2
  /\ ~Buffer_is_empty(buffer)


\* evaluate was called on its own and has returned or raised
EngineDone == cycle.handler = "engine"

\* the text evaluate was called with, trimmed
Cleaned == Strip(cycle.calls[1])

\* the text holds a character outside digits, + - * / ( ) . and whitespace
HasDisallowedChar(s) == \E i \in 1..Len(s) : s[i] \notin AllowedChars

\* C11: if the trimmed text is empty evaluate fails with the empty-
\* expression error; otherwise, if it holds any character outside digits,
\* + - * / ( ) . and whitespace, it fails with the invalid-character error,
\* raised before the parser is called, whether or not the text would parse
C11_GateBeforeParser ==
  EngineDone
    => /\ Cleaned = <<>> => (cycle.err = ErrEmpty /\ cycle.result = None)
       /\ (Cleaned # <<>> /\ HasDisallowedChar(Cleaned))
            => (cycle.err = ErrInvalidChar /\ cycle.result = None)

\* "__import__('os')" was refused for its characters
C11_ImportRefused ==
  /\ EngineDone
  /\ Cleaned = <<"_", "_", "i", "m", "p", "o", "r", "t", "_", "_", "(", "'", "o", "s", "'", ")">>
  /\ cycle.err = ErrInvalidChar
  /\ cycle.result = None


\* the tree ast.parse built for the text evaluate was called with
Parsed == AstParse(Cleaned)

\* evaluate got as far as the tree walk
Walked == EngineDone /\ Cleaned # <<>> /\ AllowedExprMatch(Cleaned) /\ Parsed.ok

\* the tree is built solely from numeric literals, unary plus and minus,
\* and binary add, subtract, multiply and divide
RECURSIVE Supported(_)
Supported(node) ==
  IF node.k = "Constant" THEN TRUE
  ELSE IF node.k = "UnaryOp"
  THEN node.op \in {"UAdd", "USub"} /\ Supported(node.l)
  ELSE IF node.k = "BinOp"
  THEN node.op \in {"Add", "Sub", "Mult", "Div"} /\ Supported(node.l) /\ Supported(node.r)
  ELSE FALSE

\* the sub-expressions the walk can visit: the operands of unary and binary
\* operations
RECURSIVE SubNodes(_)
SubNodes(node) ==
  IF node.k = "BinOp" THEN {node} \cup SubNodes(node.l) \cup SubNodes(node.r)
  ELSE IF node.k = "UnaryOp" THEN {node} \cup SubNodes(node.l)
  ELSE {node}

\* the walk of tree gets to evaluate n: nothing evaluated before n raised
\* (the left operand is evaluated before the right one)
RECURSIVE Reached(_, _)
Reached(tree, n) ==
  \/ tree = n
  \/ /\ tree.k = "BinOp"
     /\ \/ Reached(tree.l, n)
        \/ EvalNode(tree.l).ok /\ Reached(tree.r, n)
  \/ tree.k = "UnaryOp" /\ Reached(tree.l, n)

\* n is a division whose operands evaluate, the right one to zero
ZeroDivision(n) ==
  /\ n.k = "BinOp" /\ n.op = "Div"
  /\ EvalNode(n.l).ok
  /\ EvalNode(n.r).ok
  /\ DecIsZero(EvalNode(n.r).val)

\* the walk comes to a division by zero before anything else has raised
DivisionByZeroReached(tree) ==
  \E n \in SubNodes(tree) : ZeroDivision(n) /\ Reached(tree, n)

UnsupportedConstruct == {ErrUnsupportedElement, ErrUnsupportedOperator}

C13_DivisionByZeroRaised ==
  (Walked /\ DivisionByZeroReached(Parsed.node))
    => (cycle.err = ErrDivisionByZero /\ cycle.result = None)

\* "1/(1-1)": the divisor is a sub-expression that evaluates to zero
C13_ZeroSubExpression ==
  /\ Walked
  /\ Cleaned = <<"1", "/", "(", "1", "-", "1", ")">>
  /\ DivisionByZeroReached(Parsed.node)
  /\ cycle.err = ErrDivisionByZero


\* both fields of the history are set, or both are unset
BothOrNeither(h) == (h.last_expression = None) <=> (h.last_result = None)

\* C14: in every reachable state of either front end last_expression and
\* last_result are both set or both unset, and format() returns the fixed
\* no-calculation message exactly when both are unset
C14_HistoryBothOrNeither ==
  /\ BothOrNeither(history)
  /\ BothOrNeither(gui_history)
  /\ History_format(history) = <<"No calculations yet.">> <=> history = History_new
  /\ GUI_History_format(gui_history) = <<"History: None">> <=> gui_history = History_new
  /\ history_text = GUI_History_format(gui_history)

\* the keypad's history holds a pair and its label shows it
C14_PairShown ==
  /\ gui_history.last_expression # None
  /\ gui_history.last_result # None
  /\ history_text = <<"History: ">> \o gui_history.last_expression
                      \o <<" = ">> \o gui_history.last_result

\* the value the tree walk returned is zero
ZeroValued == Walked /\ EvalNode(Parsed.node).ok /\ DecIsZero(EvalNode(Parsed.node).val)

\* the text has no exponent, no trailing fractional zero and no trailing point
PlainNotation(text) ==
  /\ ~Contains(text, "E") /\ ~Contains(text, "e")
  /\ text # <<>>
  /\ text[Len(text)] # "."
  /\ Contains(text, ".") => text[Len(text)] # "0"

\* C15: every text evaluate returns has no exponent notation, no trailing
\* fractional zeros and no trailing decimal point, and every result whose
\* value is zero, however it was computed, is exactly "0"
C15_ResultFormat ==
  (EngineDone /\ cycle.result # None)
    => /\ PlainNotation(cycle.result)
       /\ ZeroValued => cycle.result = <<"0">>

\* the Decimal a literal token becomes in the tree walk
LiteralValue(tok) ==
  IF tok.t = "int" THEN DecOfInt(tok.ip) ELSE DecOfFloat(tok.ip, tok.fp)

\* the exact value of the literal's text
TextValue(tok) == Dec(0, DigitsOf(tok.ip \o tok.fp), -Len(tok.fp))

SameNumber(a, b) ==
  /\ a.sign = b.sign
  /\ StripZeros(a.int, IF DecIsZero(a) THEN 0 ELSE a.exp)
       = StripZeros(b.int, IF DecIsZero(b) THEN 0 ELSE b.exp)

LiteralsExact(toks) ==
  \A i \in 1..Len(toks) :
    toks[i].t \in {"int", "float"}
      => SameNumber(LiteralValue(toks[i]), TextValue(toks[i]))

\* C16: every numeric literal of an evaluated text becomes a decimal value
\* equal to the exact value of its text, and evaluate("0.1 + 0.2") returns
\* "0.3"
C16_LiteralsExact ==
  (EngineDone /\ cycle.result # None)
    => /\ LiteralsExact(Tokenize(Cleaned))
       /\ Cleaned = <<"0", ".", "1", " ", "+", " ", "0", ".", "2">>
            => cycle.result = <<"0", ".", "3">>

\* C17: after every step of any sequence of keypad characters, backspaces
\* and clears handed to both, the keypad's expression string equals
\* ExpressionBuffer.get() of the buffer that got each keystroke as a chunk
C17_SameContent == frontend = "pair" => expression = Buffer_get(buffer)

\* two keystrokes are left after a backspace took the third
C17_BackspaceOnBoth ==
  /\ frontend = "pair"
  /\ cycle.handler = "pair_backspace"
  /\ expression = <<"1", "/">>
  /\ buffer = <<<<"1">>, <<"/">>>>

\* the backspaces it takes to empty the chunk sequence b
RECURSIVE BackspacesToEmpty(_)
BackspacesToEmpty(b) ==
  IF b = <<>> THEN 0 ELSE 1 + BackspacesToEmpty(Buffer_backspace(b))

\* C19: when every chunk appended is non-empty, then after any sequence of
\* append, backspace and clear no stored chunk is the empty text, the chunk
\* sequence is empty exactly when the concatenation is, and the backspaces
\* needed to empty the sequence are as many as the concatenation has
\* characters
C19_ChunkInvariant ==
  /\ \A i \in 1..Len(buffer) : buffer[i] # <<>>
  /\ buffer = <<>> <=> Join(buffer) = <<>>
  /\ BackspacesToEmpty(buffer) = Len(Join(buffer))

\* a chunk that a backspace has shortened to one character, and a chunk of
\* two characters appended after it
C19_ShortenedChunkKept ==
  /\ cycle.handler = "unit_append"
  /\ Len(buffer) = 2
  /\ buffer[1] = <<"3">>
  /\ Len(buffer[2]) = 2


\* the loop of run() stopped on this step
SessionEnds == pc = "running" /\ pc' = "exited"

\* C18: no failure ends the session: whenever engine.evaluate raises in a
\* pass of the console loop, it was called once, the loop is still accepting
\* input after the pass, and the loop stops only in a pass that read a quit
\* alias or met the end of input.
C18_NoFailureEndsSession ==
  [][/\ EvaluationFailed(cycle') => (Len(cycle'.calls) = 1 /\ pc' = "running")
     /\ SessionEnds => cycle'.handler \in {"quit", "eof"}]_vars

\* the same for the five errors the engine raises itself: each is caught in
\* the pass that raised it, its message printed, the call not repeated, and
\* the loop goes on
C18_RaisedErrorsCaught ==
  [][(EvaluationFailed(cycle') /\ cycle'.err.exc \in CaughtExceptions)
        => /\ Len(cycle'.calls) = 1
           /\ cycle'.out # <<>>
           /\ pc' = "running"]_vars

\* a failed evaluation, and the session still running
C18_FailedAndRunning ==
  /\ frontend = "cli"
  /\ EvaluationFailed(cycle)
  /\ cycle.err = ErrDivisionByZero
  /\ pc = "running"

\* the session ended in the pass that evaluated the deeply nested line
C18_EndedByRecursionError ==
  /\ frontend = "cli"
  /\ pc = "exited"
  /\ cycle.handler = "expression"
  /\ cycle.err = ErrRecursion

====
